---- MODULE Spec2Model ----
(***************************************************************************)
(* A model of the metric store of the FRED dashboard (src/app.py) and of   *)
(* the bulk import script (src/bulk_add_tickers.py).                       *)
(*                                                                         *)
(* Strings are sequences of symbols, so that str.strip() and str.upper()   *)
(* are computed.  The storage file holds a sequence of JSON tokens, so     *)
(* that json.dump / json.load are a printer and a parser and a truncated   *)
(* file is a proper prefix of a document.                                  *)
(***************************************************************************)
EXTENDS Integers, Sequences, FiniteSets, TLC

(***************************************************************************)
(* Strings                                                                 *)
(***************************************************************************)
SP == " "

GDP == <<"G", "D", "P">>
UNRATE == <<"U", "N", "R">>
IPG322S == <<"I", "P", "G">>

IsSpace(c) == c = SP

\* str.upper() on one symbol: the lower-case letters the inputs use.
UpperChar(c) ==
    CASE c = "g" -> "G"
      [] c = "d" -> "D"
      [] c = "p" -> "P"
      [] c = "u" -> "U"
      [] c = "n" -> "N"
      [] c = "r" -> "R"
      [] c = "m" -> "M"
      [] OTHER -> c

Upper(s) == [i \in 1..Len(s) |-> UpperChar(s[i])]

RECURSIVE LStrip(_)
LStrip(s) == IF s # <<>> /\ IsSpace(Head(s)) THEN LStrip(Tail(s)) ELSE s

RECURSIVE RStrip(_)
RStrip(s) ==
    IF s # <<>> /\ IsSpace(s[Len(s)]) THEN RStrip(SubSeq(s, 1, Len(s) - 1)) ELSE s

\* str.strip()
Strip(s) == RStrip(LStrip(s))

\* Python's None / a string, for the optional group of the add dialog.
None == [some |-> FALSE, s |-> <<>>]
Some(str) == [some |-> TRUE, s |-> str]

(***************************************************************************)
(* Python lists and dicts.  A dict is the sequence of its (key, value)     *)
(* pairs in insertion order, keys unique.                                  *)
(***************************************************************************)
InList(x, l) == \E i \in 1..Len(l) : l[i] = x

\* list.remove(x): removes the first occurrence (x must occur).
FirstIndex(x, l) == CHOOSE i \in 1..Len(l) : l[i] = x /\ \A j \in 1..(i - 1) : l[j] # x

RemoveAt(l, i) == SubSeq(l, 1, i - 1) \o SubSeq(l, i + 1, Len(l))

ListRemove(l, x) == RemoveAt(l, FirstIndex(x, l))

DictKeys(d) == {d[i].k : i \in 1..Len(d)}

DictHas(d, key) == \E i \in 1..Len(d) : d[i].k = key

DictGet(d, key) == d[CHOOSE i \in 1..Len(d) : d[i].k = key].v

\* d[key] = val
DictSet(d, key, val) ==
    IF DictHas(d, key)
    THEN [i \in 1..Len(d) |-> IF d[i].k = key THEN [k |-> key, v |-> val] ELSE d[i]]
    ELSE Append(d, [k |-> key, v |-> val])

\* del d[key] (key must be present)
DictDel(d, key) == RemoveAt(d, CHOOSE i \in 1..Len(d) : d[i].k = key)

\* dict.values() as a set
DictValues(d) == {d[i].v : i \in 1..Len(d)}

(***************************************************************************)
(* JSON values: every node has the same three fields.                      *)
(***************************************************************************)
JStr(str) == [ty |-> "str", s |-> str, items |-> <<>>]
JNull == [ty |-> "null", s |-> <<>>, items |-> <<>>]
JArr(vs) == [ty |-> "arr", s |-> <<>>, items |-> vs]
JPair(key, val) == [ty |-> "pair", s |-> key, items |-> <<val>>]
JObj(pairs) == [ty |-> "obj", s |-> <<>>, items |-> pairs]

JHas(obj, key) == \E i \in 1..Len(obj.items) : obj.items[i].s = key

JGet(obj, key) == obj.items[CHOOSE i \in 1..Len(obj.items) : obj.items[i].s = key].items[1]

\* a key parsed twice keeps its first position and its last value
JSet(pairs, key, val) ==
    IF \E i \in 1..Len(pairs) : pairs[i].s = key
    THEN [i \in 1..Len(pairs) |-> IF pairs[i].s = key THEN JPair(key, val) ELSE pairs[i]]
    ELSE Append(pairs, JPair(key, val))

\* Python list of str / dict of str -> str, as JSON values and back
ListToJson(l) == JArr([i \in 1..Len(l) |-> JStr(l[i])])
DictToJson(d) == JObj([i \in 1..Len(d) |-> JPair(d[i].k, JStr(d[i].v))])
JsonToList(j) == [i \in 1..Len(j.items) |-> j.items[i].s]
JsonToDict(j) == [i \in 1..Len(j.items) |-> [k |-> j.items[i].s, v |-> j.items[i].items[1].s]]

IsStrList(j) == j.ty = "arr" /\ \A i \in 1..Len(j.items) : j.items[i].ty = "str"
IsStrDict(j) == j.ty = "obj" /\ \A i \in 1..Len(j.items) : j.items[i].items[1].ty = "str"

(***************************************************************************)
(* JSON text: a sequence of tokens (punctuation between items left out).   *)
(***************************************************************************)
Tok(kind) == [t |-> kind, s |-> <<>>]
StrTok(str) == [t |-> "str", s |-> str]

RECURSIVE Flatten(_)
Flatten(seqs) == IF seqs = <<>> THEN <<>> ELSE Head(seqs) \o Flatten(Tail(seqs))

\* json.dump: the text of a value
RECURSIVE JsonDump(_)
JsonDump(v) ==
    CASE v.ty = "str" -> <<StrTok(v.s)>>
      [] v.ty = "null" -> <<Tok("null")>>
      [] v.ty = "arr" ->
            <<Tok("[")>> \o Flatten([i \in 1..Len(v.items) |-> JsonDump(v.items[i])])
                \o <<Tok("]")>>
      [] v.ty = "obj" ->
            <<Tok("{")>> \o Flatten([i \in 1..Len(v.items) |-> JsonDump(v.items[i])])
                \o <<Tok("}")>>
      [] v.ty = "pair" -> <<StrTok(v.s)>> \o JsonDump(v.items[1])

ParseFail == [ok |-> FALSE, val |-> JNull, next |-> 0]

RECURSIVE ParseValue(_, _)
RECURSIVE ParseItems(_, _, _)
RECURSIVE ParseMembers(_, _, _)

ParseValue(toks, i) ==
    IF i > Len(toks) THEN ParseFail
    ELSE CASE toks[i].t = "str" -> [ok |-> TRUE, val |-> JStr(toks[i].s), next |-> i + 1]
           [] toks[i].t = "null" -> [ok |-> TRUE, val |-> JNull, next |-> i + 1]
           [] toks[i].t = "[" -> ParseItems(toks, i + 1, <<>>)
           [] toks[i].t = "{" -> ParseMembers(toks, i + 1, <<>>)
           [] OTHER -> ParseFail

ParseItems(toks, i, acc) ==
    IF i > Len(toks) THEN ParseFail
    ELSE IF toks[i].t = "]" THEN [ok |-> TRUE, val |-> JArr(acc), next |-> i + 1]
    ELSE LET r == ParseValue(toks, i)
         IN  IF r.ok THEN ParseItems(toks, r.next, Append(acc, r.val)) ELSE ParseFail

ParseMembers(toks, i, acc) ==
    IF i > Len(toks) THEN ParseFail
    ELSE IF toks[i].t = "}" THEN [ok |-> TRUE, val |-> JObj(acc), next |-> i + 1]
    ELSE IF toks[i].t # "str" THEN ParseFail
    ELSE LET r == ParseValue(toks, i + 1)
         IN  IF r.ok THEN ParseMembers(toks, r.next, JSet(acc, toks[i].s, r.val))
             ELSE ParseFail

\* json.load: the value of a text, or a failure (raises); the whole text must be one value
JsonLoad(toks) ==
    LET r == ParseValue(toks, 1)
    IN  IF r.ok /\ r.next = Len(toks) + 1 THEN [ok |-> TRUE, val |-> r.val]
        ELSE [ok |-> FALSE, val |-> JNull]

(***************************************************************************)
(* The storage file saved_metrics.json                                     *)
(***************************************************************************)
K_METRICS == <<"saved_metrics">>
K_NAMES == <<"saved_metrics_names">>
K_GROUPS == <<"saved_metrics_groups">>

NoFile == [exists |-> FALSE, content |-> <<>>]

EmptyList == JArr(<<>>)
EmptyDict == JObj(<<>>)

\* the dictionary `data` of save_metrics_to_file (the callers always pass a dict
\* of groups, so `metrics_groups or {}` is that dict)
FileData(metrics, names, groups) ==
    JObj(<<JPair(K_METRICS, ListToJson(metrics)),
           JPair(K_NAMES, DictToJson(names)),
           JPair(K_GROUPS, DictToJson(groups))>>)

Min(a, b) == IF a < b THEN a ELSE b

\* open(path, 'w') followed by json.dump(data, f), under an outcome of the file
\* system: "ok"; "open_error" (open raises, the file is untouched); "write_error"
\* (open has truncated the file and the write stops after io.kept tokens).
WriteFile(f, data, io) ==
    LET text == JsonDump(data)
    IN  CASE io.kind = "ok" -> [exists |-> TRUE, content |-> text]
          [] io.kind = "open_error" -> f
          [] io.kind = "write_error" ->
                [exists |-> TRUE, content |-> SubSeq(text, 1, Min(io.kept, Len(text) - 1))]

\* save_metrics_to_file: the new file and whether st.error reported a failure
save_metrics_to_file(f, metrics, names, groups, io) ==
    [file |-> WriteFile(f, FileData(metrics, names, groups), io),
     error |-> io.kind # "ok",
     raised |-> FALSE]

\* dict.get(key, default) on the loaded document
JGetOr(obj, key, default) == IF JHas(obj, key) THEN JGet(obj, key) ELSE default

AllEmpty(err, exc) ==
    [metrics |-> EmptyList, names |-> EmptyDict, groups |-> EmptyDict,
     error |-> err, raised |-> exc]

\* LoadTry that reads the groups from the key of the names
LoadTry_WrongKey(f) ==
    IF ~f.exists THEN [exc |-> "none", ret |-> AllEmpty(FALSE, FALSE)]
    ELSE LET doc == JsonLoad(f.content)
         IN  IF ~doc.ok THEN [exc |-> "JSONDecodeError", ret |-> AllEmpty(FALSE, FALSE)]
             ELSE IF doc.val.ty # "obj"
             THEN [exc |-> "AttributeError", ret |-> AllEmpty(FALSE, FALSE)]
             ELSE [exc |-> "none",
                   ret |-> [metrics |-> JGetOr(doc.val, K_METRICS, EmptyList),
                            names |-> JGetOr(doc.val, K_NAMES, EmptyDict),
                            groups |-> JGetOr(doc.val, K_NAMES, EmptyDict),
                            error |-> FALSE, raised |-> FALSE]]

\* lines 31-39, the body of the try: the returned triple, or the exception raised
LoadTry(f) ==
    IF ~f.exists THEN [exc |-> "none", ret |-> AllEmpty(FALSE, FALSE)]
    ELSE LET doc == JsonLoad(f.content)
         IN  IF ~doc.ok THEN [exc |-> "JSONDecodeError", ret |-> AllEmpty(FALSE, FALSE)]
             ELSE IF doc.val.ty # "obj"          \* data.get on a list, a str or None
             THEN [exc |-> "AttributeError", ret |-> AllEmpty(FALSE, FALSE)]
             ELSE [exc |-> "none",
                   ret |-> [metrics |-> JGetOr(doc.val, K_METRICS, EmptyList),
                            names |-> JGetOr(doc.val, K_NAMES, EmptyDict),
                            groups |-> JGetOr(doc.val, K_GROUPS, EmptyDict),
                            error |-> FALSE, raised |-> FALSE]]

\* line 40, `except Exception`: the exceptions the handler catches
LoadCatches(exc) == exc \in {"JSONDecodeError", "AttributeError"}

\* load_metrics_from_file: the returned triple, whether st.error reported a
\* failure, and whether an exception left the function
load_metrics_from_file(f) ==
    LET r == LoadTry(f)
    IN  IF r.exc = "none" THEN r.ret
        ELSE IF LoadCatches(r.exc) THEN AllEmpty(TRUE, FALSE)
        ELSE AllEmpty(FALSE, TRUE)

(***************************************************************************)
(* The FRED series endpoint                                                *)
(***************************************************************************)
K_SERIESS == <<"seriess">>
K_TITLE == <<"title">>

TitleOf(id) == <<"title of">> \o id

SeriesBody(entries) == JObj(<<JPair(K_SERIESS, JArr(entries))>>)

\* What the endpoint can answer to a request for `id`.
Responses(id) ==
    {[status |-> "transport_error", body |-> JNull],
     [status |-> "http_error", body |-> JNull],
     [status |-> "bad_json", body |-> JNull],
     [status |-> "ok", body |-> SeriesBody(<<JObj(<<JPair(K_TITLE, JStr(TitleOf(id)))>>)>>)],
     [status |-> "ok", body |-> SeriesBody(<<JObj(<<JPair(K_TITLE, JStr(<<>>))>>)>>)],
     [status |-> "ok", body |-> SeriesBody(<<JObj(<<JPair(<<"units">>, JStr(<<"%">>))>>)>>)],
     [status |-> "ok", body |-> SeriesBody(<<>>)],
     [status |-> "ok", body |-> SeriesBody(<<JObj(<<JPair(K_TITLE, JStr(TitleOf(id)))>>),
                                             JObj(<<JPair(K_TITLE, JStr(<<"other">>))>>)>>)],
     [status |-> "ok", body |-> JNull],
     [status |-> "ok", body |-> EmptyList],
     [status |-> "ok", body |-> JObj(<<JPair(<<"error_message">>, JStr(<<"Bad Request">>))>>)],
     [status |-> "ok", body |-> JObj(<<JPair(K_SERIESS, JNull)>>)]}

\* The answers the add dialog is run against.
AddResponses(id) ==
    {[status |-> "transport_error", body |-> JNull],
     [status |-> "ok", body |-> SeriesBody(<<JObj(<<JPair(K_TITLE, JStr(TitleOf(id)))>>)>>)],
     [status |-> "ok", body |-> SeriesBody(<<JObj(<<JPair(K_TITLE, JStr(<<>>))>>)>>)],
     [status |-> "ok", body |-> SeriesBody(<<>>)]}

\* bool(x) of a decoded JSON value
Truthy(j) ==
    CASE j.ty = "null" -> FALSE
      [] j.ty = "str" -> j.s # <<>>
      [] OTHER -> j.items # <<>>

\* get_series_info that returns the last entry of 'seriess' for the first
get_series_info_Last(resp) ==
    IF resp.status # "ok"
    THEN [val |-> EmptyDict, error |-> TRUE, raised |-> FALSE]
    ELSE IF resp.body.ty = "obj" /\ JHas(resp.body, K_SERIESS)
    THEN LET ss == JGet(resp.body, K_SERIESS)
         IN  IF ss.ty = "arr"
             THEN IF Len(ss.items) > 0
                  THEN [val |-> ss.items[Len(ss.items)], error |-> FALSE, raised |-> FALSE]
                  ELSE [val |-> EmptyDict, error |-> FALSE, raised |-> FALSE]
             ELSE [val |-> EmptyDict, error |-> TRUE, raised |-> FALSE]
    ELSE [val |-> EmptyDict, error |-> resp.body.ty = "null", raised |-> FALSE]

\* FredAPI.get_series_info: the returned value, whether st.error reported a
\* failure, and whether an exception left the method
get_series_info(resp) ==
    IF resp.status # "ok"
    THEN [val |-> EmptyDict, error |-> TRUE, raised |-> FALSE]
    ELSE IF resp.body.ty = "obj" /\ JHas(resp.body, K_SERIESS)
    THEN LET ss == JGet(resp.body, K_SERIESS)
         IN  IF ss.ty = "arr"
             THEN IF Len(ss.items) > 0
                  THEN [val |-> ss.items[1], error |-> FALSE, raised |-> FALSE]
                  ELSE [val |-> EmptyDict, error |-> FALSE, raised |-> FALSE]
             ELSE [val |-> EmptyDict, error |-> TRUE, raised |-> FALSE]
    ELSE [val |-> EmptyDict, error |-> resp.body.ty = "null", raised |-> FALSE]

(***************************************************************************)
(* The FRED observations endpoint and FredAPI.get_series_data              *)
(***************************************************************************)
K_OBSERVATIONS == <<"observations">>
K_DATE == <<"date">>
K_VALUE == <<"value">>

DigitVal(c) ==
    CASE c = "0" -> 0 [] c = "1" -> 1 [] c = "2" -> 2 [] c = "3" -> 3 [] c = "4" -> 4
      [] c = "5" -> 5 [] c = "6" -> 6 [] c = "7" -> 7 [] c = "8" -> 8 [] c = "9" -> 9
      [] OTHER -> -1

IsDigit(c) == DigitVal(c) >= 0

\* the number a sequence of digits writes
RECURSIVE DigitsVal(_)
DigitsVal(ds) ==
    IF ds = <<>> THEN 0
    ELSE 10 * DigitsVal(SubSeq(ds, 1, Len(ds) - 1)) + DigitVal(ds[Len(ds)])

\* a timestamp as the number of its day; NaT is the missing timestamp
NaT == -1
DateKey(year, month, day) == (year * 12 + (month - 1)) * 31 + (day - 1)

\* pd.to_datetime on one ISO date YYYY-MM-DD: the timestamp, or not ok (it raises)
ToDatetime(str) ==
    IF /\ Len(str) = 10
       /\ str[5] = "-" /\ str[8] = "-"
       /\ \A i \in {1, 2, 3, 4, 6, 7, 9, 10} : IsDigit(str[i])
       /\ DigitsVal(SubSeq(str, 6, 7)) \in 1..12
       /\ DigitsVal(SubSeq(str, 9, 10)) \in 1..31
    THEN [ok |-> TRUE,
          ts |-> DateKey(DigitsVal(SubSeq(str, 1, 4)), DigitsVal(SubSeq(str, 6, 7)),
                         DigitsVal(SubSeq(str, 9, 10)))]
    ELSE [ok |-> FALSE, ts |-> NaT]

\* pd.to_numeric(errors='coerce') on one text: digits with an optional sign and an
\* optional fraction give the number, in hundredths (the texts of the drawn
\* responses carry at most two decimals); anything else gives NaN
NaN == [nan |-> TRUE, v |-> 0]
ToNumeric(str) ==
    LET neg == str # <<>> /\ str[1] = "-"
        body == IF neg THEN SubSeq(str, 2, Len(str)) ELSE str
        dots == {i \in 1..Len(body) : body[i] = "."}
        ip == IF dots = {} THEN body ELSE SubSeq(body, 1, (CHOOSE i \in dots : TRUE) - 1)
        fp == IF dots = {} THEN <<>>
              ELSE SubSeq(body, (CHOOSE i \in dots : TRUE) + 1, Len(body))
        fp2 == SubSeq(fp \o <<"0", "0">>, 1, 2)
    IN  IF /\ Cardinality(dots) <= 1
           /\ Len(ip) + Len(fp) > 0
           /\ \A i \in 1..Len(ip) : IsDigit(ip[i])
           /\ \A i \in 1..Len(fp) : IsDigit(fp[i])
        THEN [nan |-> FALSE,
              v |-> (IF neg THEN -1 ELSE 1) * (100 * DigitsVal(ip) + DigitsVal(fp2))]
        ELSE NaN

\* df.sort_values('date') followed by reset_index: ascending, NaT last; ties keep
\* their order (the sort of short arrays is an insertion sort)
SortKey(row) == IF row.date = NaT THEN [last |-> 1, ts |-> 0] ELSE [last |-> 0, ts |-> row.date]

KeyLeq(a, b) == a.last < b.last \/ (a.last = b.last /\ a.ts <= b.ts)

\* sort_values left out
SortValues_None(rows) == rows

RECURSIVE SortValues(_)
SortValues(rows) ==
    IF rows = <<>> THEN <<>>
    ELSE LET sorted == SortValues(SubSeq(rows, 1, Len(rows) - 1))
             row == rows[Len(rows)]
             n == Cardinality({i \in 1..Len(sorted) : KeyLeq(SortKey(sorted[i]), SortKey(row))})
         IN  SubSeq(sorted, 1, n) \o <<row>> \o SubSeq(sorted, n + 1, Len(sorted))

\* pd.DataFrame(observations): the column `key` of one record (NaN where the
\* record has no such key or holds null)
Cell(item, key) ==
    IF item.ty = "obj" /\ JHas(item, key) /\ JGet(item, key).ty = "str"
    THEN Some(JGet(item, key).s) ELSE None

HasColumn(items, key) == \E i \in 1..Len(items) : items[i].ty = "obj" /\ JHas(items[i], key)

NoRows(exc) == [exc |-> exc, rows |-> <<>>]

\* lines 115-129: the frame built from a list of observation records
FrameOf(items) ==
    IF \A i \in 1..Len(items) : items[i].ty = "obj" /\ items[i].items = <<>>
    THEN NoRows("none")                                       \* df.empty
    ELSE IF ~HasColumn(items, K_DATE) THEN NoRows("KeyError")
    ELSE IF \E i \in 1..Len(items) :
                Cell(items[i], K_DATE).some /\ ~ToDatetime(Cell(items[i], K_DATE).s).ok
    THEN NoRows("ValueError")
    ELSE IF ~HasColumn(items, K_VALUE) THEN NoRows("KeyError")
    ELSE LET parsed == [i \in 1..Len(items) |->
                          [date |-> IF Cell(items[i], K_DATE).some
                                    THEN ToDatetime(Cell(items[i], K_DATE).s).ts ELSE NaT,
                           num |-> IF Cell(items[i], K_VALUE).some
                                   THEN ToNumeric(Cell(items[i], K_VALUE).s) ELSE NaN]]
             kept == SelectSeq(parsed, LAMBDA r : ~r.num.nan)
         IN  [exc |-> "none",
              rows |-> SortValues([i \in 1..Len(kept) |->
                                      [date |-> kept[i].date, value |-> kept[i].num.v]])]

\* lines 108-131, the body of the try: the returned rows, or the exception raised
DataTry(resp) ==
    CASE resp.status = "transport_error" -> NoRows("ConnectionError")
      [] resp.status = "http_error" -> NoRows("HTTPError")
      [] resp.status = "bad_json" -> NoRows("JSONDecodeError")
      [] OTHER ->
         LET data == resp.body
         IN  CASE data.ty = "null" -> NoRows("TypeError")
               [] data.ty = "str" ->
                    IF \E i \in 1..Len(data.s) : <<data.s[i]>> = K_OBSERVATIONS
                    THEN NoRows("TypeError") ELSE NoRows("none")
               [] data.ty = "arr" ->
                    IF \E i \in 1..Len(data.items) : data.items[i] = JStr(K_OBSERVATIONS)
                    THEN NoRows("TypeError") ELSE NoRows("none")
               [] OTHER ->
                    IF ~JHas(data, K_OBSERVATIONS) THEN NoRows("none")
                    ELSE LET observations == JGet(data, K_OBSERVATIONS)
                         IN  CASE observations.ty = "null" -> NoRows("none")
                               [] observations.ty = "arr" ->
                                    IF \A i \in 1..Len(observations.items) :
                                          observations.items[i].ty = "obj"
                                    THEN FrameOf(observations.items)
                                    ELSE NoRows("KeyError")
                               [] OTHER -> NoRows("ValueError")

RequestExceptions == {"ConnectionError", "HTTPError", "JSONDecodeError"}

\* a handler that catches the exceptions of requests only
DataCatches_RequestOnly(exc) == exc \in RequestExceptions

\* lines 133 and 136: except RequestException, except Exception
DataCatches(exc) == exc \in RequestExceptions \/ exc \in {"TypeError", "KeyError", "ValueError"}

\* FredAPI.get_series_data: the rows of the returned frame, whether st.error
\* reported a failure, and whether an exception left the method
get_series_data(resp) ==
    LET t == DataTry(resp)
    IN  IF t.exc = "none" THEN [rows |-> t.rows, error |-> FALSE, raised |-> FALSE]
        ELSE IF DataCatches(t.exc) THEN [rows |-> <<>>, error |-> TRUE, raised |-> FALSE]
        ELSE [rows |-> <<>>, error |-> FALSE, raised |-> TRUE]

(***************************************************************************)
(* The handlers of main()                                                  *)
(***************************************************************************)
Sessions == {"s1", "s2"}

NONE_LABEL == <<"None">>
FOOD == <<"CPG_Food and Paper">>
INDUSTRIAL == <<"Industrial Production">>
MOST_USED == <<"Most Used">>

\* what the user can type as series id and as new group name
RawInputs == {<<SP, "g", "d", "p", SP>>, <<"u", "n", "r">>, GDP, <<>>, <<SP>>}
RawGroups == {<<SP>>, <<SP>> \o INDUSTRIAL \o <<SP>>}

\* lines 435-461: the group the dialog hands to the Save handler
GroupChoices(groups) ==
    LET existing == DictValues(groups)
    IN  {None}
        \cup {IF g = NONE_LABEL THEN None ELSE Some(g) : g \in existing}
        \cup {IF Strip(t) = <<>> THEN None ELSE Some(t) : t \in RawGroups}

\* FetchedName with `'title' in series_info` in place of the truth test of the title
FetchedName_AnyTitle(metric_upper, resp) ==
    LET series_info == get_series_info(resp).val
    IN  IF ~Truthy(series_info) THEN metric_upper
        ELSE IF series_info.ty # "obj" THEN metric_upper
        ELSE IF JHas(series_info, K_TITLE) THEN JGet(series_info, K_TITLE).s
        ELSE metric_upper

\* FetchedName that never uses the fetched title
FetchedName_IdOnly(metric_upper, resp) == metric_upper

\* lines 474-482: the name stored for a new metric
FetchedName(metric_upper, resp) ==
    LET series_info == get_series_info(resp).val
    IN  IF ~Truthy(series_info) THEN metric_upper
        ELSE IF series_info.ty # "obj" THEN metric_upper   \* .get raises, bare except
        ELSE IF JHas(series_info, K_TITLE) /\ Truthy(JGet(series_info, K_TITLE))
        THEN JGet(series_info, K_TITLE).s
        ELSE metric_upper

\* SaveHandler that assigns the supplied group to an id that is already saved
SaveHandler_Regroup(st, new_metric, metric_group, resp) ==
    IF Strip(new_metric) # <<>>
    THEN LET metric_upper == Upper(Strip(new_metric))
             groups == IF metric_group.some /\ Strip(metric_group.s) # <<>>
                       THEN DictSet(st.groups, metric_upper, Strip(metric_group.s))
                       ELSE st.groups
         IN  IF ~InList(metric_upper, st.metrics)
             THEN [metrics |-> Append(st.metrics, metric_upper), groups |-> groups,
                   names |-> DictSet(st.names, metric_upper, FetchedName(metric_upper, resp)),
                   id |-> metric_upper, outcome |-> "added", msg |-> "success",
                   save |-> TRUE, show |-> FALSE]
             ELSE [metrics |-> st.metrics, groups |-> groups, names |-> st.names,
                   id |-> metric_upper, outcome |-> "duplicate", msg |-> "warning",
                   save |-> FALSE, show |-> FALSE]
    ELSE [metrics |-> st.metrics, groups |-> st.groups, names |-> st.names,
          id |-> <<>>, outcome |-> "empty", msg |-> "error",
          save |-> FALSE, show |-> TRUE]

\* SaveHandler that puts the new id first (list.insert(0, id) for list.append(id))
SaveHandler_Prepend(st, new_metric, metric_group, resp) ==
    IF Strip(new_metric) # <<>>
    THEN LET metric_upper == Upper(Strip(new_metric))
         IN  IF ~InList(metric_upper, st.metrics)
             THEN [metrics |-> <<metric_upper>> \o st.metrics,
                   groups |-> IF metric_group.some /\ Strip(metric_group.s) # <<>>
                              THEN DictSet(st.groups, metric_upper, Strip(metric_group.s))
                              ELSE st.groups,
                   names |-> DictSet(st.names, metric_upper, FetchedName(metric_upper, resp)),
                   id |-> metric_upper, outcome |-> "added", msg |-> "success",
                   save |-> TRUE, show |-> FALSE]
             ELSE [metrics |-> st.metrics, groups |-> st.groups, names |-> st.names,
                   id |-> metric_upper, outcome |-> "duplicate", msg |-> "warning",
                   save |-> FALSE, show |-> FALSE]
    ELSE [metrics |-> st.metrics, groups |-> st.groups, names |-> st.names,
          id |-> <<>>, outcome |-> "empty", msg |-> "error",
          save |-> FALSE, show |-> TRUE]

\* SaveHandler that looks the input up as typed and appends its normalised form
SaveHandler_RawCheck(st, new_metric, metric_group, resp) ==
    IF Strip(new_metric) # <<>>
    THEN LET metric_upper == Upper(Strip(new_metric))
         IN  IF ~InList(new_metric, st.metrics)
             THEN [metrics |-> Append(st.metrics, metric_upper),
                   groups |-> IF metric_group.some /\ Strip(metric_group.s) # <<>>
                              THEN DictSet(st.groups, metric_upper, Strip(metric_group.s))
                              ELSE st.groups,
                   names |-> DictSet(st.names, metric_upper, FetchedName(metric_upper, resp)),
                   id |-> metric_upper, outcome |-> "added", msg |-> "success",
                   save |-> TRUE, show |-> FALSE]
             ELSE [metrics |-> st.metrics, groups |-> st.groups, names |-> st.names,
                   id |-> metric_upper, outcome |-> "duplicate", msg |-> "warning",
                   save |-> FALSE, show |-> FALSE]
    ELSE [metrics |-> st.metrics, groups |-> st.groups, names |-> st.names,
          id |-> <<>>, outcome |-> "empty", msg |-> "error",
          save |-> FALSE, show |-> TRUE]

\* SaveHandler that closes the dialog on an empty input as on any other
SaveHandler_CloseOnEmpty(st, new_metric, metric_group, resp) ==
    IF Strip(new_metric) # <<>>
    THEN LET metric_upper == Upper(Strip(new_metric))
         IN  IF ~InList(metric_upper, st.metrics)
             THEN [metrics |-> Append(st.metrics, metric_upper),
                   groups |-> IF metric_group.some /\ Strip(metric_group.s) # <<>>
                              THEN DictSet(st.groups, metric_upper, Strip(metric_group.s))
                              ELSE st.groups,
                   names |-> DictSet(st.names, metric_upper, FetchedName(metric_upper, resp)),
                   id |-> metric_upper, outcome |-> "added", msg |-> "success",
                   save |-> TRUE, show |-> FALSE]
             ELSE [metrics |-> st.metrics, groups |-> st.groups, names |-> st.names,
                   id |-> metric_upper, outcome |-> "duplicate", msg |-> "warning",
                   save |-> FALSE, show |-> FALSE]
    ELSE [metrics |-> st.metrics, groups |-> st.groups, names |-> st.names,
          id |-> <<>>, outcome |-> "empty", msg |-> "error",
          save |-> FALSE, show |-> FALSE]

\* lines 465-496: the Save button of the add dialog, on the session's store `st`
SaveHandler(st, new_metric, metric_group, resp) ==
    IF Strip(new_metric) # <<>>
    THEN LET metric_upper == Upper(Strip(new_metric))
         IN  IF ~InList(metric_upper, st.metrics)
             THEN [metrics |-> Append(st.metrics, metric_upper),
                   groups |-> IF metric_group.some /\ Strip(metric_group.s) # <<>>
                              THEN DictSet(st.groups, metric_upper, Strip(metric_group.s))
                              ELSE st.groups,
                   names |-> DictSet(st.names, metric_upper, FetchedName(metric_upper, resp)),
                   id |-> metric_upper, outcome |-> "added", msg |-> "success",
                   save |-> TRUE, show |-> FALSE]
             ELSE [metrics |-> st.metrics, groups |-> st.groups, names |-> st.names,
                   id |-> metric_upper, outcome |-> "duplicate", msg |-> "warning",
                   save |-> FALSE, show |-> FALSE]
    ELSE [metrics |-> st.metrics, groups |-> st.groups, names |-> st.names,
          id |-> <<>>, outcome |-> "empty", msg |-> "error",
          save |-> FALSE, show |-> TRUE]

\* DeleteHandler that leaves the group entry of the removed metric in place
DeleteHandler_KeepGroup(st, metric) ==
    IF ~InList(metric, st.metrics)
    THEN [metrics |-> st.metrics, groups |-> st.groups, names |-> st.names,
          outcome |-> "ValueError", save |-> FALSE, raised |-> TRUE]
    ELSE [metrics |-> ListRemove(st.metrics, metric),
          groups |-> st.groups,
          names |-> IF DictHas(st.names, metric) THEN DictDel(st.names, metric)
                    ELSE st.names,
          outcome |-> "removed", save |-> TRUE, raised |-> FALSE]

\* lines 543-556: the delete button of `metric`, on the session's store `st`
DeleteHandler(st, metric) ==
    IF ~InList(metric, st.metrics)
    THEN [metrics |-> st.metrics, groups |-> st.groups, names |-> st.names,
          outcome |-> "ValueError", save |-> FALSE, raised |-> TRUE]
    ELSE [metrics |-> ListRemove(st.metrics, metric),
          groups |-> IF DictHas(st.groups, metric) THEN DictDel(st.groups, metric)
                     ELSE st.groups,
          names |-> IF DictHas(st.names, metric) THEN DictDel(st.names, metric)
                    ELSE st.names,
          outcome |-> "removed", save |-> TRUE, raised |-> FALSE]

(***************************************************************************)
(* The bulk import script                                                  *)
(***************************************************************************)
\* default_tickers, cut down to the two categories that list IPG322S
default_tickers ==
    <<[group |-> FOOD, ticker |-> IPG322S],
      [group |-> INDUSTRIAL, ticker |-> IPG322S]>>

BulkResponses(id) ==
    {[status |-> "transport_error", body |-> JNull],
     [status |-> "ok", body |-> SeriesBody(<<JObj(<<JPair(K_TITLE, JStr(TitleOf(id)))>>)>>)]}

\* get_series_info of the script: the title, or the id
BulkTitle(series_id, resp) ==
    IF resp.status # "ok" THEN series_id
    ELSE IF resp.body.ty = "obj" /\ JHas(resp.body, K_SERIESS)
            /\ JGet(resp.body, K_SERIESS).ty = "arr"
            /\ Len(JGet(resp.body, K_SERIESS).items) > 0
    THEN LET first == JGet(resp.body, K_SERIESS).items[1]
         IN  IF first.ty # "obj" THEN series_id
             ELSE IF JHas(first, K_TITLE) THEN JGet(first, K_TITLE).s ELSE series_id
    ELSE series_id

\* lines 66-89: the three structures after the first n catalog entries, resps[i]
\* being the answer to the i-th fetch
RECURSIVE BulkBuild(_, _)
BulkBuild(n, resps) ==
    IF n = 0 THEN [metrics |-> <<>>, names |-> <<>>, groups |-> <<>>]
    ELSE LET prev == BulkBuild(n - 1, resps)
             e == default_tickers[n]
         IN  [metrics |-> Append(prev.metrics, e.ticker),
              names |-> DictSet(prev.names, e.ticker, BulkTitle(e.ticker, resps[n])),
              groups |-> DictSet(prev.groups, e.ticker, e.group)]

(***************************************************************************)
(* State                                                                   *)
(***************************************************************************)
\* lines 531 and 563: saved_metrics_names.get(metric, metric)
DisplayName(st, metric) == IF DictHas(st.names, metric) THEN DictGet(st.names, metric) ELSE metric

\* lines 532 and 564: saved_metrics_groups.get(metric); None is "ungrouped"
group_of(st, metric) ==
    IF DictHas(st.groups, metric) THEN Some(DictGet(st.groups, metric)) ELSE None

ALL == <<"All">>

\* lines 508-516: the texts selected_filter can take. sorted() fixes only the place
\* of an option in the dropdown, and the selectbox hands back the option's text;
\* without a group there is no dropdown and the filter is "All".
all_groups(st) == {ALL} \cup DictValues(st.groups)

\* lines 519-525: the metrics listed under the selected filter
filtered_metrics(st, selected_filter) ==
    IF selected_filter = ALL THEN st.metrics
    ELSE SelectSeq(st.metrics, LAMBDA metric : group_of(st, metric) = Some(selected_filter))

(***************************************************************************)
(* The summary table of main()                                             *)
(***************************************************************************)
NA == <<"N/A">>
ERROR == <<"Error">>
K_FREQUENCY == <<"frequency">>
K_UNITS == <<"units">>

DigitChar(n) ==
    CASE n = 0 -> "0" [] n = 1 -> "1" [] n = 2 -> "2" [] n = 3 -> "3" [] n = 4 -> "4"
      [] n = 5 -> "5" [] n = 6 -> "6" [] n = 7 -> "7" [] n = 8 -> "8" [] OTHER -> "9"

\* the decimal digits of a natural number
RECURSIVE Digits(_)
Digits(n) == IF n < 10 THEN <<DigitChar(n)>> ELSE Digits(n \div 10) \o <<DigitChar(n % 10)>>

\* the digits of n padded with zeros to the width w
RECURSIVE Padded(_, _)
Padded(n, w) == IF Len(Digits(n)) >= w THEN Digits(n) ELSE <<"0">> \o Padded(n, w - 1)

Abs(x) == IF x < 0 THEN -x ELSE x

\* f"{x:.2f}" of a number given in hundredths
Format2f(x) ==
    (IF x < 0 THEN <<"-">> ELSE <<>>)
        \o Digits(Abs(x) \div 100) \o <<".">> \o Padded(Abs(x) % 100, 2)

\* a / b rounded to the nearest integer (b # 0)
RoundDiv(a, b) ==
    LET n == IF b < 0 THEN -a ELSE a
        d == Abs(b)
    IN  (2 * n + d) \div (2 * d)

\* ((a - b) / b) * 100 formatted with f"{x:.2f}%", a and b in hundredths
FormatPct(a, b) == Format2f(RoundDiv((a - b) * 10000, b)) \o <<"%">>

\* Timestamp.strftime('%Y-%m-%d')
Strftime(ts) ==
    Padded(ts \div 372, 4) \o <<"-">> \o Padded(((ts \div 31) % 12) + 1, 2)
        \o <<"-">> \o Padded((ts % 31) + 1, 2)

\* metric_info.get(key, 'N/A')
InfoGet(metric_info, key) == IF JHas(metric_info, key) THEN JGet(metric_info, key).s ELSE NA

ErrorRow(metric_name) ==
    [name |-> metric_name, current |-> ERROR, latest_date |-> ERROR, units |-> ERROR,
     frequency |-> ERROR, sequential |-> ERROR, ytd |-> ERROR]

\* lines 846-854 and 865-870: the change from `base` to latest_value
ChangeFormat(use_percentage, latest_value, base) ==
    IF use_percentage /\ base # 0
    THEN FormatPct(latest_value, base)
    ELSE Format2f(latest_value - base)

\* lines 831-882: the row of a metric with at least two observations
FullRow(metric_name, metric_df, metric_info, use_percentage, current_year) ==
    IF metric_info.ty # "obj" THEN ErrorRow(metric_name)            \* AttributeError
    ELSE LET df == SortValues(metric_df)
             latest == df[Len(df)]
             previous_value == df[Len(df) - 1].value
             ytd_start == DateKey(current_year, 1, 1)
             ytd_df == SelectSeq(df, LAMBDA r : r.date # NaT /\ r.date >= ytd_start)
         IN  IF latest.date = NaT THEN ErrorRow(metric_name)        \* NaT.strftime
             ELSE [name |-> metric_name,
                   current |-> Format2f(latest.value),
                   latest_date |-> Strftime(latest.date),
                   units |-> InfoGet(metric_info, K_UNITS),
                   frequency |-> InfoGet(metric_info, K_FREQUENCY),
                   sequential |-> ChangeFormat(use_percentage, latest.value, previous_value),
                   ytd |-> IF ytd_df # <<>>
                           THEN ChangeFormat(use_percentage, latest.value, ytd_df[1].value)
                           ELSE NA]

\* ShortRow that reports a change of 0.00 where there is no previous observation
ShortRow_Zero(metric_name, metric_df, metric_info) ==
    [name |-> metric_name,
     current |-> IF metric_df # <<>> THEN Format2f(metric_df[Len(metric_df)].value) ELSE NA,
     latest_date |-> IF metric_df # <<>> THEN Strftime(metric_df[Len(metric_df)].date) ELSE NA,
     units |-> IF Truthy(metric_info) THEN InfoGet(metric_info, K_UNITS) ELSE NA,
     frequency |-> IF Truthy(metric_info) THEN InfoGet(metric_info, K_FREQUENCY) ELSE NA,
     sequential |-> Format2f(0),
     ytd |-> NA]

\* lines 883-906: the row of a metric with fewer than two observations
ShortRow(metric_name, metric_df, metric_info) ==
    IF Truthy(metric_info) /\ metric_info.ty # "obj" THEN ErrorRow(metric_name)
    ELSE IF metric_df # <<>> /\ metric_df[Len(metric_df)].date = NaT THEN ErrorRow(metric_name)
    ELSE [name |-> metric_name,
          current |-> IF metric_df # <<>> THEN Format2f(metric_df[Len(metric_df)].value) ELSE NA,
          latest_date |-> IF metric_df # <<>> THEN Strftime(metric_df[Len(metric_df)].date)
                          ELSE NA,
          units |-> IF Truthy(metric_info) THEN InfoGet(metric_info, K_UNITS) ELSE NA,
          frequency |-> IF Truthy(metric_info) THEN InfoGet(metric_info, K_FREQUENCY) ELSE NA,
          sequential |-> NA,
          ytd |-> NA]

\* lines 825-919: the summary row of one saved metric
SummaryRow(st, metric, data_resp, info_resp, use_percentage, current_year) ==
    LET data == get_series_data(data_resp)
        info == get_series_info(info_resp)
        metric_name == DisplayName(st, metric)
    IN  IF data.raised \/ info.raised THEN ErrorRow(metric_name)
        ELSE IF Len(data.rows) >= 2
        THEN FullRow(metric_name, data.rows, info.val, use_percentage, current_year)
        ELSE ShortRow(metric_name, data.rows, info.val)

VARIABLES
    file,                  \* saved_metrics.json
    loaded,                \* per session: 'saved_metrics' in st.session_state
    saved_metrics,         \* per session: st.session_state.saved_metrics
    saved_metrics_names,   \* per session: st.session_state.saved_metrics_names
    saved_metrics_groups,  \* per session: st.session_state.saved_metrics_groups
    show_add_metric,       \* per session: st.session_state.show_add_metric
    ret,                   \* what the last direct call of load() returned
    calls,                 \* number of direct calls made (SpecApi)
    failures,              \* number of file writes that failed
    last,                  \* the handler that ran last, its inputs and signals
    fetched,               \* the last direct call of a FredAPI method: answer and result
    summary                \* the last summary row computed, with its inputs

vars == <<file, loaded, saved_metrics, saved_metrics_names, saved_metrics_groups,
          show_add_metric, ret, calls, failures, last, fetched, summary>>

MaxPartial == 1
MaxLen == 2
MaxCalls == 2
MaxFailures == 1

Ids == {GDP, UNRATE}

Store(s) ==
    [metrics |-> saved_metrics[s], names |-> saved_metrics_names[s],
     groups |-> saved_metrics_groups[s]]

EmptyStore == [metrics |-> <<>>, names |-> <<>>, groups |-> <<>>]

NoRet == [metrics |-> JNull, names |-> JNull, groups |-> JNull,
          error |-> FALSE, raised |-> FALSE]

NoLast ==
    [op |-> "none", sid |-> "s1", id |-> <<>>, outcome |-> "none", msg |-> "none",
     group |-> None, fetch |-> "none", title |-> None, io |-> "none", saved |-> FALSE,
     raw |-> <<>>, filter |-> <<>>, shown |-> <<>>]

\* the outcomes of a file write
IoOk == [kind |-> "ok", kept |-> 0]

IoOutcomes ==
    {IoOk, [kind |-> "open_error", kept |-> 0]}
    \cup {[kind |-> "write_error", kept |-> k] : k \in 0..MaxPartial}

\* the outcomes the failure budget still allows
IoNow == IF failures < MaxFailures THEN IoOutcomes ELSE {IoOk}

NoResponse == [status |-> "none", body |-> JNull]

NoFetch ==
    [call |-> "none", resp |-> NoResponse, rows |-> <<>>, val |-> JNull,
     error |-> FALSE, raised |-> FALSE]

NoSummary ==
    [done |-> FALSE, metric |-> <<>>, data_resp |-> NoResponse, info_resp |-> NoResponse,
     use_percentage |-> FALSE, current_year |-> 0, row |-> ErrorRow(<<>>)]

\* the handler requests the series and writes the file only for a new, non-empty id
WillAdd(s, new_metric) ==
    Strip(new_metric) # <<>> /\ ~InList(Upper(Strip(new_metric)), saved_metrics[s])

\* The title the endpoint delivers, if it delivers a non-empty one
DeliveredTitle(resp) ==
    IF /\ resp.status = "ok"
       /\ resp.body.ty = "obj"
       /\ \E i \in 1..Len(resp.body.items) :
            /\ resp.body.items[i].s = K_SERIESS
            /\ resp.body.items[i].items[1].ty = "arr"
            /\ resp.body.items[i].items[1].items # <<>>
            /\ LET e == resp.body.items[i].items[1].items[1]
               IN  /\ e.ty = "obj"
                   /\ \E j \in 1..Len(e.items) :
                        e.items[j].s = K_TITLE /\ e.items[j].items[1].ty = "str"
                            /\ e.items[j].items[1].s # <<>>
    THEN Some((JGet(JGet(resp.body, K_SERIESS).items[1], K_TITLE)).s)
    ELSE None

SetStore(s, st) ==
    /\ saved_metrics' = [saved_metrics EXCEPT ![s] = st.metrics]
    /\ saved_metrics_names' = [saved_metrics_names EXCEPT ![s] = st.names]
    /\ saved_metrics_groups' = [saved_metrics_groups EXCEPT ![s] = st.groups]

(***************************************************************************)
(* The app: sessions, the add dialog, the delete buttons, the script       *)
(***************************************************************************)
Init ==
    /\ file = NoFile
    /\ loaded = [s \in Sessions |-> FALSE]
    /\ saved_metrics = [s \in Sessions |-> <<>>]
    /\ saved_metrics_names = [s \in Sessions |-> <<>>]
    /\ saved_metrics_groups = [s \in Sessions |-> <<>>]
    /\ show_add_metric = [s \in Sessions |-> FALSE]
    /\ ret = NoRet
    /\ calls = 0
    /\ failures = 0
    /\ last = NoLast
    /\ fetched = NoFetch
    /\ summary = NoSummary

\* lines 405-410: the first run of a new session (a page load) reads the file
StartSession(s) ==
    \E r \in {load_metrics_from_file(file)} :
        /\ IsStrList(r.metrics) /\ IsStrDict(r.names) /\ IsStrDict(r.groups)
        /\ loaded' = [loaded EXCEPT ![s] = TRUE]
        /\ SetStore(s, [metrics |-> JsonToList(r.metrics), names |-> JsonToDict(r.names),
                        groups |-> JsonToDict(r.groups)])
        /\ show_add_metric' = [show_add_metric EXCEPT ![s] = FALSE]
        /\ last' = [NoLast EXCEPT !.op = "load", !.sid = s,
                                  !.outcome = IF r.error THEN "error" ELSE "ok",
                                  !.msg = IF r.error THEN "error" ELSE "none"]
        /\ UNCHANGED <<file, ret, calls, failures, fetched, summary>>

\* lines 421-422: the "Add New Metric" button
OpenAddDialog(s) ==
    /\ loaded[s]
    /\ show_add_metric' = [show_add_metric EXCEPT ![s] = TRUE]
    /\ last' = [NoLast EXCEPT !.op = "open", !.sid = s]
    /\ UNCHANGED <<file, loaded, saved_metrics, saved_metrics_names,
                   saved_metrics_groups, ret, calls, failures, fetched, summary>>

\* lines 499-501: the Cancel button of the dialog
CancelAddDialog(s) ==
    /\ loaded[s] /\ show_add_metric[s]
    /\ show_add_metric' = [show_add_metric EXCEPT ![s] = FALSE]
    /\ last' = [NoLast EXCEPT !.op = "cancel", !.sid = s]
    /\ UNCHANGED <<file, loaded, saved_metrics, saved_metrics_names,
                   saved_metrics_groups, ret, calls, failures, fetched, summary>>

\* lines 465-496: the Save button of the dialog
SaveMetric(s, new_metric, metric_group, resp, io) ==
    /\ loaded[s] /\ show_add_metric[s]
    /\ \E h \in {SaveHandler(Store(s), new_metric, metric_group, resp)} :
        /\ SetStore(s, h)
        /\ file' = IF h.save
                   THEN save_metrics_to_file(file, h.metrics, h.names, h.groups, io).file
                   ELSE file
        /\ show_add_metric' = [show_add_metric EXCEPT ![s] = h.show]
        /\ last' = [op |-> "add", sid |-> s, id |-> h.id, outcome |-> h.outcome,
                    msg |-> h.msg,
                    group |-> metric_group,
                    fetch |-> IF resp.status = "none" THEN "none"
                              ELSE IF resp.status = "ok" THEN "answered" ELSE "failed",
                    title |-> IF h.outcome = "added" THEN DeliveredTitle(resp) ELSE None,
                    io |-> IF h.save THEN io.kind ELSE "none", saved |-> h.save,
                    raw |-> new_metric, filter |-> <<>>, shown |-> <<>>]
        /\ failures' = IF h.save /\ io.kind # "ok" THEN failures + 1 ELSE failures
        /\ UNCHANGED <<loaded, ret, calls, fetched, summary>>

\* lines 527-556: the delete button of the i-th listed metric
DeleteMetric(s, i, io) ==
    /\ loaded[s]
    /\ \E h \in {DeleteHandler(Store(s), saved_metrics[s][i])} :
        /\ SetStore(s, h)
        /\ file' = IF h.save
                   THEN save_metrics_to_file(file, h.metrics, h.names, h.groups, io).file
                   ELSE file
        /\ last' = [NoLast EXCEPT !.op = "remove", !.sid = s, !.id = saved_metrics[s][i],
                                  !.outcome = h.outcome,
                                  !.io = IF h.save THEN io.kind ELSE "none",
                                  !.saved = h.save]
        /\ failures' = IF h.save /\ io.kind # "ok" THEN failures + 1 ELSE failures
        /\ UNCHANGED <<loaded, show_add_metric, ret, calls, fetched, summary>>

\* bulk_add_tickers.py, lines 66-100: the script pre-populates the store, so it
\* is run while the app has not written the file yet
BulkImport(resps, io) ==
    \E b \in {BulkBuild(Len(default_tickers), resps)} :
        /\ ~file.exists
        /\ file' = WriteFile(file, FileData(b.metrics, b.names, b.groups), io)
        /\ last' = [NoLast EXCEPT !.op = "bulk", !.io = io.kind, !.saved = TRUE]
        /\ failures' = IF io.kind # "ok" THEN failures + 1 ELSE failures
        /\ UNCHANGED <<loaded, saved_metrics, saved_metrics_names, saved_metrics_groups,
                       show_add_metric, ret, calls, fetched, summary>>

BulkFetches ==
    {r \in [1..Len(default_tickers) -> UNION {BulkResponses(default_tickers[i].ticker) :
                                                i \in 1..Len(default_tickers)}] :
        \A i \in 1..Len(default_tickers) : r[i] \in BulkResponses(default_tickers[i].ticker)}

User == "s1"

(***************************************************************************)
(* The store operations called directly, on drawn stores and files         *)
(***************************************************************************)
UniqueLists ==
    {l \in UNION {[1..n -> Ids] : n \in 0..MaxLen} :
        \A i, j \in 1..Len(l) : i # j => l[i] # l[j]}

Range(l) == {l[i] : i \in 1..Len(l)}

\* the names of the ids of l that are in `keys`, in list order
NamesOver(l, keys) ==
    LET ks == SelectSeq(l, LAMBDA x : x \in keys)
    IN  [i \in 1..Len(ks) |-> [k |-> ks[i], v |-> TitleOf(ks[i])]]

\* the groups of the ids of l that are in `keys`, in list order
GroupsOver(l, keys) ==
    LET ks == SelectSeq(l, LAMBDA x : x \in keys)
    IN  [i \in 1..Len(ks) |-> [k |-> ks[i], v |-> MOST_USED]]

\* Stores of at most MaxLen metrics, each with or without a name and a group
StoreInputs ==
    UNION {{[metrics |-> l, names |-> NamesOver(l, N),
             groups |-> GroupsOver(l, G)] :
               N \in SUBSET Range(l), G \in SUBSET Range(l)} : l \in UniqueLists}

FileOf(text) == [exists |-> TRUE, content |-> text]

Prefixes(text) == {SubSeq(text, 1, k) : k \in 0..Len(text)}

\* Documents that are not what save_metrics_to_file writes
OddDocuments ==
    {EmptyList, JStr(GDP), JNull, EmptyDict,
     JObj(<<JPair(K_METRICS, ListToJson(<<GDP>>))>>),
     JObj(<<JPair(K_NAMES, DictToJson(<<[k |-> GDP, v |-> TitleOf(GDP)]>>))>>),
     JObj(<<JPair(K_METRICS, JNull)>>),
     JObj(<<JPair(K_METRICS, JStr(GDP)), JPair(K_NAMES, EmptyDict), JPair(K_GROUPS, EmptyDict)>>),
     JObj(<<JPair(K_METRICS, EmptyList), JPair(K_NAMES, EmptyList), JPair(K_GROUPS, JNull)>>),
     JObj(<<JPair(K_METRICS, JArr(<<JNull>>))>>),
     JObj(<<JPair(K_METRICS, ListToJson(<<GDP, GDP>>))>>),
     JObj(<<JPair(<<"version">>, JStr(<<"1">>))>>)}

\* Files load() is run against: none, the files of the drawn stores, every
\* truncation of one of them, other documents, and text that is no document
FileInputs ==
    {NoFile}
    \cup {FileOf(JsonDump(FileData(st.metrics, st.names, st.groups))) : st \in StoreInputs}
    \cup {FileOf(t) : t \in Prefixes(JsonDump(FileData(<<GDP>>, <<[k |-> GDP, v |-> TitleOf(GDP)]>>,
                                                          <<[k |-> GDP, v |-> MOST_USED]>>)))}
    \cup {FileOf(JsonDump(d)) : d \in OddDocuments}
    \cup {FileOf(JsonDump(EmptyDict) \o <<Tok("}")>>), FileOf(<<Tok("]")>>),
          FileOf(<<Tok("{"), StrTok(K_METRICS), Tok("["), Tok("]"),
                   StrTok(K_METRICS), Tok("["), StrTok(GDP), Tok("]"), Tok("}")>>)}

InitApi ==
    /\ loaded = [s \in Sessions |-> s = "s1"]
    /\ \E st \in StoreInputs, f \in FileInputs :
         /\ st = EmptyStore \/ f = NoFile
         /\ file = f
         /\ saved_metrics = [s \in Sessions |-> IF s = "s1" THEN st.metrics ELSE <<>>]
         /\ saved_metrics_names = [s \in Sessions |-> IF s = "s1" THEN st.names ELSE <<>>]
         /\ saved_metrics_groups = [s \in Sessions |-> IF s = "s1" THEN st.groups ELSE <<>>]
    /\ show_add_metric = [s \in Sessions |-> FALSE]
    /\ ret = NoRet
    /\ calls = 0
    /\ failures = 0
    /\ last = NoLast
    /\ fetched = NoFetch
    /\ summary = NoSummary

\* load(): load_metrics_from_file on the file as it is
LoadCall ==
    /\ calls < MaxCalls
    /\ calls' = calls + 1
    /\ ret' = load_metrics_from_file(file)
    /\ last' = [NoLast EXCEPT !.op = "load"]
    /\ UNCHANGED <<file, loaded, saved_metrics, saved_metrics_names,
                   saved_metrics_groups, show_add_metric, failures, fetched, summary>>

\* persist(): save_metrics_to_file on the store of session s
PersistCall(s, io) ==
    /\ calls < MaxCalls
    /\ calls' = calls + 1
    /\ file' = save_metrics_to_file(file, saved_metrics[s], saved_metrics_names[s],
                                    saved_metrics_groups[s], io).file
    /\ ret' = NoRet
    /\ last' = [NoLast EXCEPT !.op = "persist", !.sid = s, !.io = io.kind, !.saved = TRUE]
    /\ UNCHANGED <<loaded, saved_metrics, saved_metrics_names, saved_metrics_groups,
                   show_add_metric, failures, fetched, summary>>

\* remove(id): lines 544-555 on any identifier
RemoveCall(s, metric, io) ==
    /\ calls < MaxCalls
    /\ calls' = calls + 1
    /\ \E h \in {DeleteHandler(Store(s), metric)} :
        /\ SetStore(s, h)
        /\ file' = IF h.save
                   THEN save_metrics_to_file(file, h.metrics, h.names, h.groups, io).file
                   ELSE file
        /\ last' = [NoLast EXCEPT !.op = "remove", !.sid = s, !.id = metric,
                                  !.outcome = h.outcome,
                                  !.io = IF h.save THEN io.kind ELSE "none",
                                  !.saved = h.save]
    /\ ret' = NoRet
    /\ UNCHANGED <<loaded, show_add_metric, failures, fetched, summary>>

NextApi ==
    \/ LoadCall
    \/ \E io \in IoOutcomes : PersistCall("s1", io)
    \/ \E metric \in Ids, io \in IoOutcomes : RemoveCall("s1", metric, io)

SpecApi == InitApi /\ [][NextApi]_vars

Next ==
    \/ StartSession(User)
    \/ OpenAddDialog(User)
    \/ CancelAddDialog(User)
    \/ \E new_metric \in RawInputs :
         \E metric_group \in GroupChoices(saved_metrics_groups[User]) :
           \E resp \in IF WillAdd(User, new_metric)
                       THEN AddResponses(Upper(Strip(new_metric))) ELSE {NoResponse} :
             \E io \in IF WillAdd(User, new_metric) THEN IoNow ELSE {IoOk} :
               SaveMetric(User, new_metric, metric_group, resp, io)
    \/ \E i \in 1..Len(saved_metrics[User]), io \in IoNow : DeleteMetric(User, i, io)
    \/ \E resps \in BulkFetches, io \in IoNow : BulkImport(resps, io)

Spec == Init /\ [][Next]_vars

(***************************************************************************)
(* The FredAPI methods and the summary row, run on drawn answers           *)
(***************************************************************************)
MaxObs == 3

D_DEC19 == <<"2", "0", "1", "9", "-", "1", "2", "-", "0", "1">>
D_JAN20 == <<"2", "0", "2", "0", "-", "0", "1", "-", "0", "1">>
D_FEB20 == <<"2", "0", "2", "0", "-", "0", "2", "-", "0", "1">>
V_ZERO == <<"0", ".", "0">>
V_ONE_HALF == <<"1", ".", "5">>
V_MISSING == <<".">>

ObsDates == {D_DEC19, D_JAN20, D_FEB20}
ObsValues == {V_ZERO, V_ONE_HALF, V_MISSING}

\* one record of the 'observations' array
Obs(date, value) == JObj(<<JPair(K_DATE, JStr(date)), JPair(K_VALUE, JStr(value))>>)

ObsBody(items) == JObj(<<JPair(K_OBSERVATIONS, JArr(items))>>)

Answer(body) == [status |-> "ok", body |-> body]

\* answers with an array of at most MaxObs dated observations, in any order,
\* dates repeated or not, values numeric or the missing marker
ObservationResponses ==
    {Answer(ObsBody(l)) :
        l \in UNION {[1..n -> {Obs(d, v) : d \in ObsDates, v \in ObsValues}] : n \in 0..MaxObs}}

\* failures of the transport, and bodies that are not an array of dated observations
OddDataResponses ==
    {[status |-> "transport_error", body |-> JNull],
     [status |-> "http_error", body |-> JNull],
     [status |-> "bad_json", body |-> JNull],
     Answer(JNull), Answer(EmptyList), Answer(JStr(K_OBSERVATIONS)),
     Answer(JObj(<<JPair(<<"error_message">>, JStr(<<"Bad Request">>))>>)),
     Answer(JObj(<<JPair(K_OBSERVATIONS, JNull)>>)),
     Answer(JObj(<<JPair(K_OBSERVATIONS, JObj(<<JPair(K_DATE, JStr(D_JAN20))>>))>>)),
     Answer(ObsBody(<<JStr(D_JAN20)>>)),
     Answer(ObsBody(<<EmptyDict>>)),
     Answer(ObsBody(<<JObj(<<JPair(K_DATE, JStr(D_JAN20))>>)>>)),
     Answer(ObsBody(<<JObj(<<JPair(K_VALUE, JStr(V_ONE_HALF))>>)>>)),
     Answer(ObsBody(<<Obs(<<"soon">>, V_ONE_HALF), Obs(D_JAN20, V_ONE_HALF)>>)),
     Answer(ObsBody(<<Obs(D_JAN20, V_ONE_HALF), JObj(<<JPair(K_DATE, JStr(D_FEB20))>>)>>))}

DataResponses == ObservationResponses \cup OddDataResponses

\* the answers of the series endpoint the summary row is computed against
SummaryInfos(id) ==
    {[status |-> "transport_error", body |-> JNull],
     Answer(SeriesBody(<<>>)),
     Answer(SeriesBody(<<JObj(<<JPair(K_TITLE, JStr(TitleOf(id))),
                               JPair(K_UNITS, JStr(<<"%">>))>>)>>))}

\* datetime.now().year
Years == {2020, 2021}

\* the stores whose metric the summary row is computed for
FetchStores == {st \in StoreInputs : st.metrics = <<GDP>> /\ st.groups = <<>>}

InitFetch ==
    /\ file = NoFile
    /\ loaded = [s \in Sessions |-> s = "s1"]
    /\ \E st \in FetchStores :
         /\ saved_metrics = [s \in Sessions |-> IF s = "s1" THEN st.metrics ELSE <<>>]
         /\ saved_metrics_names = [s \in Sessions |-> IF s = "s1" THEN st.names ELSE <<>>]
         /\ saved_metrics_groups = [s \in Sessions |-> IF s = "s1" THEN st.groups ELSE <<>>]
    /\ show_add_metric = [s \in Sessions |-> FALSE]
    /\ ret = NoRet
    /\ calls = 0
    /\ failures = 0
    /\ last = NoLast
    /\ fetched = NoFetch
    /\ summary = NoSummary

Idle == fetched.call = "none" /\ ~summary.done

\* fred_api.get_series_data(metric) against a drawn answer
DataCall ==
    /\ Idle
    /\ \E resp \in DataResponses : \E r \in {get_series_data(resp)} :
         fetched' = [call |-> "get_series_data", resp |-> resp, rows |-> r.rows,
                     val |-> JNull, error |-> r.error, raised |-> r.raised]
    /\ UNCHANGED <<file, loaded, saved_metrics, saved_metrics_names, saved_metrics_groups,
                   show_add_metric, ret, calls, failures, last, summary>>

\* fred_api.get_series_info(metric) against a drawn answer
InfoCall ==
    /\ Idle
    /\ \E resp \in Responses(GDP) : \E r \in {get_series_info(resp)} :
         fetched' = [call |-> "get_series_info", resp |-> resp, rows |-> <<>>,
                     val |-> r.val, error |-> r.error, raised |-> r.raised]
    /\ UNCHANGED <<file, loaded, saved_metrics, saved_metrics_names, saved_metrics_groups,
                   show_add_metric, ret, calls, failures, last, summary>>

\* lines 825-919 for a saved metric of the session, against drawn answers, with
\* the checkbox and the clock as drawn
SummaryCall(s) ==
    /\ Idle
    /\ loaded[s]
    /\ \E i \in 1..Len(saved_metrics[s]), data_resp \in DataResponses,
          info_resp \in SummaryInfos(GDP), use_percentage \in BOOLEAN,
          current_year \in Years :
         summary' = [done |-> TRUE, metric |-> saved_metrics[s][i],
                     data_resp |-> data_resp, info_resp |-> info_resp,
                     use_percentage |-> use_percentage, current_year |-> current_year,
                     row |-> SummaryRow(Store(s), saved_metrics[s][i], data_resp, info_resp,
                                        use_percentage, current_year)]
    /\ UNCHANGED <<file, loaded, saved_metrics, saved_metrics_names, saved_metrics_groups,
                   show_add_metric, ret, calls, failures, last, fetched>>

\* one call is made on each drawn answer
NextFetch == DataCall \/ InfoCall \/ SummaryCall("s1")

SpecFetch == InitFetch /\ [][NextFetch]_vars

(***************************************************************************)
(* Sessions with their sidebar: groups, the group filter, add and delete   *)
(***************************************************************************)
\* lines 504-527: a run of the script with `selected_filter` chosen in the filter;
\* `shown` are the identifiers of the buttons it lists, in order
Render(s, selected_filter) ==
    /\ loaded[s]
    /\ last' = [NoLast EXCEPT !.op = "filter", !.sid = s, !.filter = selected_filter,
                              !.shown = filtered_metrics(Store(s), selected_filter)]
    /\ UNCHANGED <<file, loaded, saved_metrics, saved_metrics_names, saved_metrics_groups,
                   show_add_metric, ret, calls, failures, fetched, summary>>

\* the identifiers typed in this session
ViewInputs == {GDP, <<"u", "n", "r">>}

\* lines 435-461: the groups of the dialog, with "All" typed as a new group name
ViewGroupChoices(groups) == GroupChoices(groups) \cup {Some(<<SP>> \o ALL)}

\* the endpoint answers with the title
TitleAnswer(id) ==
    [status |-> "ok", body |-> SeriesBody(<<JObj(<<JPair(K_TITLE, JStr(TitleOf(id)))>>)>>)]

NextView ==
    \E s \in Sessions :
        \/ StartSession(s)
        \/ OpenAddDialog(s)
        \/ \E new_metric \in ViewInputs :
             \E metric_group \in ViewGroupChoices(saved_metrics_groups[s]) :
               \E resp \in IF WillAdd(s, new_metric)
                           THEN {TitleAnswer(Upper(Strip(new_metric)))} ELSE {NoResponse} :
                 SaveMetric(s, new_metric, metric_group, resp, IoOk)
        \/ \E i \in 1..Len(saved_metrics[s]) : DeleteMetric(s, i, IoOk)
        \/ \E selected_filter \in all_groups(Store(s)) : Render(s, selected_filter)

SpecView == Init /\ [][NextView]_vars

(***************************************************************************)
(* Properties                                                              *)
(***************************************************************************)
StoreNext(s) ==
    [metrics |-> saved_metrics'[s], names |-> saved_metrics_names'[s],
     groups |-> saved_metrics_groups'[s]]

NoDup(l) == \A i, j \in 1..Len(l) : i # j => l[i] # l[j]

\* the file f exists and load() reads exactly the store st from it
Holds(f, st) ==
    /\ f.exists
    /\ LET r == load_metrics_from_file(f)
       IN  /\ ~r.error /\ ~r.raised
           /\ r.metrics = ListToJson(st.metrics)
           /\ r.names = DictToJson(st.names)
           /\ r.groups = DictToJson(st.groups)

\* the group the dialog supplied, as add stores it (None when none was supplied)
Supplied(g) == IF g.some /\ Strip(g.s) # <<>> THEN Some(Strip(g.s)) ELSE None

\* this step is the Save handler run on a new, non-empty identifier
AddsNew == last'.op = "add" /\ last'.id # <<>> /\ ~InList(last'.id, saved_metrics[last'.sid])

\* C1: in every state reachable from load() by add and remove, the ordered
\* identifier sequence of a session holds no identifier twice.
C1_UniqueIds == \A s \in Sessions : NoDup(saved_metrics[s])

\* C2: add(id) for an identifier already in the sequence is a rejected no-op: the
\* sequence, the name map and the group map are unchanged whatever group is
\* supplied, nothing is appended or written, and the duplicate warning is raised.
C2_DuplicateAddIsNoOp ==
    [][(last'.op = "add" /\ last'.id # <<>> /\ InList(last'.id, saved_metrics[last'.sid]))
        => /\ StoreNext(last'.sid) = Store(last'.sid)
           /\ file' = file
           /\ ~last'.saved
           /\ last'.outcome = "duplicate" /\ last'.msg = "warning"]_vars

\* a duplicate add was rejected although the group supplied differs from the stored one
C2_Witness ==
    /\ last.op = "add" /\ last.outcome = "duplicate" /\ last.msg = "warning"
    /\ Supplied(last.group).some
    /\ group_of(Store(last.sid), last.id) # Supplied(last.group)
    /\ DisplayName(Store(last.sid), last.id) # last.id

\* C3: add(id) for a new identifier appends id as the last element and leaves the
\* others in their order, stores the group label when one is provided (none
\* otherwise), and persists the result: the file is written with the resulting
\* store, which load() reads back from it when the write completes.
C3_AddAppends ==
    [][AddsNew
        => /\ saved_metrics'[last'.sid] = Append(saved_metrics[last'.sid], last'.id)
           /\ group_of(StoreNext(last'.sid), last'.id) = Supplied(last'.group)
           /\ \A m \in Range(saved_metrics[last'.sid]) :
                group_of(StoreNext(last'.sid), m) = group_of(Store(last'.sid), m)
           /\ last'.outcome = "added" /\ last'.saved
           /\ (last'.io = "ok" => Holds(file', StoreNext(last'.sid)))]_vars

\* a third identifier was appended with a group and the write completed
C3_Witness ==
    /\ last.op = "add" /\ last.outcome = "added" /\ last.io = "ok"
    /\ Len(saved_metrics[last.sid]) >= 3
    /\ saved_metrics[last.sid][Len(saved_metrics[last.sid])] = last.id
    /\ Supplied(last.group).some
    /\ Holds(file, Store(last.sid))

\* C4: after a successful add(id) the display name of id is the fetched title when
\* the fetch delivers a non-empty title and id otherwise; a failed fetch does not
\* keep the add from completing and from being persisted.
C4_NameFromTitle ==
    [][AddsNew
        => /\ InList(last'.id, saved_metrics'[last'.sid])
           /\ DisplayName(StoreNext(last'.sid), last'.id)
                = (IF last'.title.some THEN last'.title.s ELSE last'.id)
           /\ last'.outcome = "added" /\ last'.saved
           /\ (last'.io = "ok" => Holds(file', StoreNext(last'.sid)))]_vars

\* an add whose fetch failed completed, with the id as name, and was persisted
C4_Witness ==
    /\ last.op = "add" /\ last.outcome = "added" /\ last.fetch = "failed"
    /\ InList(last.id, saved_metrics[last.sid])
    /\ DisplayName(Store(last.sid), last.id) = last.id
    /\ last.io = "ok" /\ Holds(file, Store(last.sid))

\* an add whose fetch delivered a title took it as the name
C4_WitnessTitle ==
    /\ last.op = "add" /\ last.outcome = "added" /\ last.title.some
    /\ DisplayName(Store(last.sid), last.id) = TitleOf(last.id)

\* this step adds GDP, without a group, to the empty store
AddsGdpToEmpty ==
    /\ last'.op = "add" /\ last'.id = GDP /\ ~Supplied(last'.group).some
    /\ Store(last'.sid) = EmptyStore

\* C5 as claimed: from the empty store, add("GDP") without name and group gives
\* the list ["GDP"], an empty name map (display name "GDP"), an empty group map,
\* and group_of("GDP") is ungrouped.
C5_Original ==
    [][AddsGdpToEmpty
        => /\ StoreNext(last'.sid) = [metrics |-> <<GDP>>, names |-> <<>>, groups |-> <<>>]
           /\ DisplayName(StoreNext(last'.sid), GDP) = GDP
           /\ group_of(StoreNext(last'.sid), GDP) = None]_vars

\* C5 as amended: from the empty store, add("GDP") without group gives the list
\* ["GDP"], the name map {"GDP": t} with t the fetched title, or "GDP" when the
\* fetch delivers no title, an empty group map, and group_of("GDP") is ungrouped.
C5_Amended ==
    [][AddsGdpToEmpty
        => LET t == IF last'.title.some THEN last'.title.s ELSE GDP
           IN  /\ StoreNext(last'.sid)
                    = [metrics |-> <<GDP>>, names |-> <<[k |-> GDP, v |-> t]>>,
                       groups |-> <<>>]
               /\ DisplayName(StoreNext(last'.sid), GDP) = t
               /\ group_of(StoreNext(last'.sid), GDP) = None]_vars

\* GDP was added to the empty store without a group and its fetch gave no title
C5_Witness ==
    /\ last.op = "add" /\ last.outcome = "added" /\ last.id = GDP
    /\ ~last.group.some /\ ~last.title.some
    /\ Store(last.sid) = [metrics |-> <<GDP>>, names |-> <<[k |-> GDP, v |-> GDP]>>,
                          groups |-> <<>>]

\* C6: after remove(id) on a store that contains id, id occurs nowhere in the
\* sequence and is a key of neither map, the other identifiers keep their order
\* and their map entries, and the new state is persisted.
C6_RemoveErases ==
    [][(last'.op = "remove" /\ InList(last'.id, saved_metrics[last'.sid]))
        => /\ saved_metrics'[last'.sid]
                = SelectSeq(saved_metrics[last'.sid], LAMBDA m : m # last'.id)
           /\ ~DictHas(saved_metrics_names'[last'.sid], last'.id)
           /\ ~DictHas(saved_metrics_groups'[last'.sid], last'.id)
           /\ \A m \in Range(saved_metrics[last'.sid]) \ {last'.id} :
                /\ DisplayName(StoreNext(last'.sid), m) = DisplayName(Store(last'.sid), m)
                /\ group_of(StoreNext(last'.sid), m) = group_of(Store(last'.sid), m)
           /\ last'.saved
           /\ (last'.io = "ok" => Holds(file', StoreNext(last'.sid)))]_vars

C8_RoundTrip ==
    [][(last.op = "persist" /\ last.io = "ok" /\ last'.op = "load")
        => /\ ~ret'.error /\ ~ret'.raised
           /\ ret'.metrics = ListToJson(saved_metrics[last.sid])
           /\ ret'.names = DictToJson(saved_metrics_names[last.sid])
           /\ ret'.groups = DictToJson(saved_metrics_groups[last.sid])]_vars

\* a store of two metrics, one without name and one without group, was read back
C8_Witness ==
    /\ last.op = "load" /\ calls = 2
    /\ Len(saved_metrics["s1"]) = 2
    /\ Len(saved_metrics_names["s1"]) = 1 /\ Len(saved_metrics_groups["s1"]) = 1
    /\ DictKeys(saved_metrics_names["s1"]) # DictKeys(saved_metrics_groups["s1"])
    /\ ret.metrics = ListToJson(saved_metrics["s1"])
    /\ ret.names = DictToJson(saved_metrics_names["s1"])
    /\ ret.groups = DictToJson(saved_metrics_groups["s1"])

\* the empty store was read back from the file it was persisted to
C8_WitnessEmpty ==
    /\ last.op = "load" /\ calls = 2 /\ file.exists /\ saved_metrics["s1"] = <<>>
    /\ ret.metrics = EmptyList /\ ret.names = EmptyDict /\ ret.groups = EmptyDict
    /\ file.content = JsonDump(FileData(<<>>, <<>>, <<>>))

\* the shape save_metrics_to_file gives a document: an object whose three fields,
\* where present, are a list of strings and two maps of strings
ExpectedShape(f) ==
    /\ JsonLoad(f.content).ok
    /\ LET doc == JsonLoad(f.content).val
       IN  /\ doc.ty = "obj"
           /\ JHas(doc, K_METRICS) => IsStrList(JGet(doc, K_METRICS))
           /\ JHas(doc, K_NAMES) => IsStrDict(JGet(doc, K_NAMES))
           /\ JHas(doc, K_GROUPS) => IsStrDict(JGet(doc, K_GROUPS))

IsAllEmpty(r) == r.metrics = EmptyList /\ r.names = EmptyDict /\ r.groups = EmptyDict

\* C9: load() never raises; for a missing file it returns the all-empty triple;
\* for a file that cannot be parsed or has an unexpected shape it reports the
\* error and returns the all-empty triple.
C9_LoadRecovers ==
    last.op = "load"
        => /\ ~ret.raised
           /\ (~file.exists => IsAllEmpty(ret) /\ ~ret.error)
           /\ (file.exists /\ ~ExpectedShape(file) => IsAllEmpty(ret) /\ ret.error)

\* C10: a persist leaves in the file either the complete state persisted before
\* or the complete new state, also when it fails part-way.
C10_AtomicPersist ==
    [][(last'.op \in {"add", "remove"} /\ last'.saved)
        => \/ file' = file
           \/ file' = FileOf(JsonDump(FileData(saved_metrics'[last'.sid],
                                               saved_metrics_names'[last'.sid],
                                               saved_metrics_groups'[last'.sid])))]_vars

\* C11: every add or remove that changes the in-memory store re-serializes it at
\* once, so that after it load() reads from the storage file exactly the
\* in-memory store (list, name map, group map), whatever the write's outcome.
C11_FileMirrorsStore ==
    (last.op \in {"add", "remove"} /\ last.saved) => Holds(file, Store(last.sid))

\* the raw observations of an answer that carries an array of dated observations
IsObservationAnswer(resp) ==
    /\ resp.status = "ok" /\ resp.body.ty = "obj"
    /\ \E p \in Range(resp.body.items) :
         /\ p.s = K_OBSERVATIONS /\ p.items[1].ty = "arr"
         /\ \A o \in Range(p.items[1].items) :
              /\ o.ty = "obj" /\ Len(o.items) = 2
              /\ o.items[1].s = K_DATE /\ o.items[1].items[1].s \in ObsDates
              /\ o.items[2].s = K_VALUE /\ o.items[2].items[1].s \in ObsValues

RawObservations(resp) ==
    LET p == CHOOSE p \in Range(resp.body.items) : p.s = K_OBSERVATIONS
    IN  [i \in 1..Len(p.items[1].items) |->
            [date |-> p.items[1].items[i].items[1].items[1].s,
             value |-> p.items[1].items[i].items[2].items[1].s]]

\* the day and the number that the drawn date and value texts write
DayOf(d) ==
    CASE d = D_DEC19 -> DateKey(2019, 12, 1)
      [] d = D_JAN20 -> DateKey(2020, 1, 1)
      [] d = D_FEB20 -> DateKey(2020, 2, 1)

IsNumericText(v) == v \in {V_ZERO, V_ONE_HALF}

HundredthsOf(v) == CASE v = V_ZERO -> 0 [] v = V_ONE_HALF -> 150

CountOf(seq, Test(_)) == Cardinality({i \in 1..Len(seq) : Test(seq[i])})

\* C12: for every answer carrying an array of observations, in whatever order,
\* get_series_data returns the observations ascending by date, none of them
\* with a non-numeric raw value (the missing marker "."), and every observation
\* with a numeric raw value, as often as the answer holds it.
C12_SortedNumeric ==
    (fetched.call = "get_series_data" /\ IsObservationAnswer(fetched.resp))
        => LET raw == RawObservations(fetched.resp)
               rows == fetched.rows
           IN  /\ ~fetched.error /\ ~fetched.raised
               /\ \A i \in 1..(Len(rows) - 1) : rows[i].date <= rows[i + 1].date
               /\ Len(rows) = CountOf(raw, LAMBDA o : IsNumericText(o.value))
               /\ \A d \in ObsDates, v \in {V_ZERO, V_ONE_HALF} :
                    CountOf(rows, LAMBDA r : r.date = DayOf(d) /\ r.value = HundredthsOf(v))
                        = CountOf(raw, LAMBDA o : o.date = d /\ o.value = v)

\* three observations arrived latest first, one of them missing: the two others
\* are returned, earliest first
C12_Witness ==
    /\ fetched.call = "get_series_data" /\ IsObservationAnswer(fetched.resp)
    /\ RawObservations(fetched.resp)
         = <<[date |-> D_FEB20, value |-> V_MISSING], [date |-> D_JAN20, value |-> V_ONE_HALF],
             [date |-> D_DEC19, value |-> V_ZERO]>>
    /\ fetched.rows = <<[date |-> DayOf(D_DEC19), value |-> 0],
                        [date |-> DayOf(D_JAN20), value |-> 150]>>

\* C13: the dates of the observations get_series_data returns are strictly
\* increasing, no two of them share a date, for every raw answer.
C13_StrictDates ==
    fetched.call = "get_series_data"
        => \A i, j \in 1..Len(fetched.rows) :
              i < j => fetched.rows[i].date < fetched.rows[j].date

\* the answer failed in transport, by status or in decoding, or carries no
\* observation array
NoObservationArray(resp) ==
    \/ resp.status # "ok"
    \/ resp.body.ty # "obj"
    \/ \A p \in Range(resp.body.items) : p.s = K_OBSERVATIONS => p.items[1].ty # "arr"

\* C14: get_series_data raises nothing for any answer, and returns the empty
\* sequence on a transport failure, an HTTP error status, a malformed body and
\* an answer without observation array.
C14_DataNeverRaises ==
    fetched.call = "get_series_data"
        => /\ ~fetched.raised
           /\ NoObservationArray(fetched.resp) => fetched.rows = <<>>

\* a JSON null body was answered with the empty sequence and a reported error
C14_Witness ==
    /\ fetched.call = "get_series_data"
    /\ fetched.resp = Answer(JNull)
    /\ fetched.rows = <<>> /\ fetched.error /\ ~fetched.raised

\* an HTTP error status was answered with the empty sequence
C14_WitnessStatus ==
    /\ fetched.call = "get_series_data" /\ fetched.resp.status = "http_error"
    /\ fetched.rows = <<>> /\ fetched.error /\ ~fetched.raised

\* the answer carries at least one series entry
HasSeriesEntry(resp) ==
    /\ resp.status = "ok" /\ resp.body.ty = "obj"
    /\ \E p \in Range(resp.body.items) :
         p.s = K_SERIESS /\ p.items[1].ty = "arr" /\ p.items[1].items # <<>>

FirstSeriesEntry(resp) ==
    (CHOOSE p \in Range(resp.body.items) : p.s = K_SERIESS).items[1].items[1]

\* C15: get_series_info raises nothing; it returns the empty record on a
\* transport failure, an HTTP error status, a malformed body and an answer
\* with no series entry, and the first series entry of the answer otherwise.
C15_InfoNeverRaises ==
    fetched.call = "get_series_info"
        => /\ ~fetched.raised
           /\ fetched.val = (IF HasSeriesEntry(fetched.resp)
                             THEN FirstSeriesEntry(fetched.resp) ELSE EmptyDict)

\* an answer with two series entries gave the first one
C15_Witness ==
    /\ fetched.call = "get_series_info" /\ HasSeriesEntry(fetched.resp)
    /\ Len(JGet(fetched.resp.body, K_SERIESS).items) = 2
    /\ fetched.val = JObj(<<JPair(K_TITLE, JStr(TitleOf(GDP)))>>)
    /\ fetched.val # JGet(fetched.resp.body, K_SERIESS).items[2]

\* an undecodable body gave the empty record
C15_WitnessMalformed ==
    /\ fetched.call = "get_series_info" /\ fetched.resp.status = "bad_json"
    /\ fetched.val = EmptyDict /\ fetched.error

\* the observations the summary row was computed from, earliest first
SummaryRows == get_series_data(summary.data_resp).rows

YtdRows ==
    SelectSeq(SummaryRows, LAMBDA r : r.date >= DateKey(summary.current_year, 1, 1))

\* C16: in percentage mode a change whose denominator is 0 (the previous value
\* for the sequential change, the year-start value for the year-to-date change)
\* is reported as "N/A", and the row is computed without failure.
C16_ZeroDenominatorNA ==
    (summary.done /\ summary.use_percentage /\ Len(SummaryRows) >= 2)
        => /\ summary.row.sequential # ERROR /\ summary.row.ytd # ERROR
           /\ SummaryRows[Len(SummaryRows) - 1].value = 0 => summary.row.sequential = NA
           /\ (YtdRows # <<>> /\ YtdRows[1].value = 0) => summary.row.ytd = NA

\* C17: for a stored metric whose series has fewer than two observations, none
\* included, the row reports "N/A" for the sequential and for the year-to-date
\* change, and computing it does not fail.
C17_ShortHistoryNA ==
    (summary.done /\ Len(SummaryRows) < 2)
        => /\ summary.row.sequential = NA /\ summary.row.ytd = NA
           /\ summary.row.current # ERROR /\ summary.row.name # ERROR
           /\ summary.row.name = DisplayName(Store("s1"), summary.metric)

\* one observation: its value and date are shown, both changes are "N/A"
C17_Witness ==
    /\ summary.done /\ Len(SummaryRows) = 1
    /\ summary.row.current = <<"1", ".", "5", "0">>
    /\ summary.row.latest_date = D_JAN20
    /\ summary.row.sequential = NA /\ summary.row.ytd = NA

\* no observation, the fetch having failed: every cell of the series is "N/A"
C17_WitnessNone ==
    /\ summary.done /\ SummaryRows = <<>> /\ summary.data_resp.status = "transport_error"
    /\ summary.row.current = NA /\ summary.row.latest_date = NA
    /\ summary.row.sequential = NA /\ summary.row.ytd = NA

\* C18: the bulk import writes a file in the three-field format in which each
\* catalog identifier occurs exactly once in the list, has a name entry (the
\* fetched title, or the identifier), and has as group entry the category the
\* catalog lists it under.
C18_BulkFileKeepsInvariants ==
    (last.op = "bulk" /\ last.io = "ok")
        => /\ file.exists
           /\ LET r == load_metrics_from_file(file)
              IN  /\ ~r.error
                  /\ IsStrList(r.metrics) /\ IsStrDict(r.names) /\ IsStrDict(r.groups)
                  /\ \A n \in 1..Len(default_tickers) :
                       LET e == default_tickers[n]
                       IN  /\ CountOf(JsonToList(r.metrics), LAMBDA m : m = e.ticker) = 1
                           /\ DictHas(JsonToDict(r.names), e.ticker)
                           /\ DictGet(JsonToDict(r.names), e.ticker)
                                \in {TitleOf(e.ticker), e.ticker}
                           /\ DictHas(JsonToDict(r.groups), e.ticker)
                           /\ DictGet(JsonToDict(r.groups), e.ticker) = e.group

\* the input holds nothing but blanks
Blank(raw) == \A i \in 1..Len(raw) : raw[i] = SP

\* C19: the identifier add appends is the input with surrounding whitespace
\* removed and in upper case, and the duplicate check is made on that form: an
\* input that differs from a stored identifier only in letter case or
\* surrounding whitespace is rejected as a duplicate.
C19_NormalisedIdentifier ==
    [][(last'.op = "add" /\ ~Blank(last'.raw))
        => LET id == Upper(Strip(last'.raw))
               before == saved_metrics[last'.sid]
           IN  /\ last'.id = id
               /\ IF InList(id, before)
                  THEN /\ last'.outcome = "duplicate"
                       /\ saved_metrics'[last'.sid] = before
                  ELSE /\ last'.outcome = "added"
                       /\ saved_metrics'[last'.sid] = Append(before, id)]_vars

\* " gdp " was entered while GDP was stored, and was rejected as a duplicate
C19_Witness ==
    /\ last.op = "add" /\ last.raw = <<SP, "g", "d", "p", SP>>
    /\ last.outcome = "duplicate" /\ last.id = GDP
    /\ InList(GDP, saved_metrics[last.sid])
    /\ ~InList(last.raw, saved_metrics[last.sid])

\* "unr" was entered and UNR was appended
C19_WitnessAdded ==
    /\ last.op = "add" /\ last.raw = <<"u", "n", "r">> /\ last.outcome = "added"
    /\ saved_metrics[last.sid][Len(saved_metrics[last.sid])] = <<"U", "N", "R">>

\* C20: submitting add with an empty or whitespace-only identifier shows an
\* error message, leaves the sequence and both maps unchanged, does not
\* rewrite the storage file, and leaves the add dialog open.
C20_EmptyInputRejected ==
    [][(last'.op = "add" /\ Blank(last'.raw))
        => /\ last'.msg = "error" /\ last'.outcome = "empty"
           /\ StoreNext(last'.sid) = Store(last'.sid)
           /\ file' = file /\ ~last'.saved
           /\ show_add_metric'[last'.sid]]_vars

\* a blank was submitted to a session that holds a metric: the error is shown
\* and the dialog is still open
C20_Witness ==
    /\ last.op = "add" /\ last.raw = <<SP>> /\ last.msg = "error"
    /\ show_add_metric[last.sid]
    /\ saved_metrics[last.sid] # <<>> /\ file.exists

\* the stored identifiers whose group-map value is g, in store order
InGroup(st, g) ==
    SelectSeq(st.metrics, LAMBDA m : \E i \in 1..Len(st.groups) :
                                        st.groups[i].k = m /\ st.groups[i].v = g)

\* the labels that occur as a value of the group map
GroupLabels(st) == {st.groups[i].v : i \in 1..Len(st.groups)}

\* C21: selecting a label that occurs as a value of the group map lists exactly
\* the stored identifiers with that group, in store order; any other selection
\* is "All" and lists every stored identifier.
C21_FilterShowsGroup ==
    last.op = "filter"
        => LET st == Store(last.sid)
           IN  IF last.filter \in GroupLabels(st)
               THEN last.shown = InGroup(st, last.filter)
               ELSE last.filter = ALL /\ last.shown = st.metrics

\* the identifier list the storage file holds contains id
InFile(f, id) ==
    /\ f.exists
    /\ LET r == load_metrics_from_file(f)
       IN  ~r.error /\ IsStrList(r.metrics) /\ InList(id, JsonToList(r.metrics))

\* C22: with two sessions that have each loaded the shared file, an identifier
\* one session added and persisted is still in the file after the next add or
\* remove of a different identifier by the other session.
C22_NoLostUpdate ==
    [][(/\ last.op = "add" /\ last.outcome = "added" /\ last.io = "ok"
        /\ InFile(file, last.id)
        /\ \A s \in Sessions : loaded[s]
        /\ last'.op \in {"add", "remove"} /\ last'.saved
        /\ last'.sid # last.sid /\ last'.id # last.id)
        => InFile(file', last.id)]_vars

\* the keys of a map
KeySet(d) == {d[i].k : i \in 1..Len(d)}

\* a text that is not empty and neither starts nor ends with a blank
Trimmed(v) == v # <<>> /\ v[1] # SP /\ v[Len(v)] # SP

\* C23: from an empty store, after any adds and removes the keys of the name
\* map are the stored identifiers, the keys of the group map are among them,
\* and every group label is non-empty without surrounding whitespace.
C23_NoOrphanedEntries ==
    \A s \in Sessions :
        /\ KeySet(saved_metrics_names[s]) = {saved_metrics[s][i] : i \in 1..Len(saved_metrics[s])}
        /\ KeySet(saved_metrics_groups[s]) \subseteq KeySet(saved_metrics_names[s])
        /\ \A i \in 1..Len(saved_metrics_groups[s]) : Trimmed(saved_metrics_groups[s][i].v)

\* a grouped metric was removed after " Industrial Production " had been typed as
\* the group of another that stays, stored without its blanks
C23_Witness ==
    /\ last.op = "remove" /\ last.outcome = "removed"
    /\ ~InList(last.id, saved_metrics[last.sid])
    /\ Len(saved_metrics[last.sid]) = 1
    /\ saved_metrics_groups[last.sid] = <<[k |-> saved_metrics[last.sid][1], v |-> INDUSTRIAL]>>
====
